---- MODULE Spec2Model ----
(***************************************************************************)
(* Model of package upload (upload.go, errors.go): the constructor New,    *)
(* the validators checkExt and checkSize, and the upload loop Do.          *)
(*                                                                         *)
(* Strings are sequences of one-character strings, so that indexing        *)
(* (ext[0], dir[len(dir)-1]), concatenation and filepath.Ext are computed  *)
(* as the code computes them.  Error values are named by the variable or   *)
(* the errors.New call that produces them.                                 *)
(***************************************************************************)
EXTENDS Integers, Sequences, FiniteSets, TLC

VARIABLES
    pc,        \* position of the program: before New, inside Do, returned
    args,      \* the arguments New was called with
    rootKind,  \* what the filesystem holds at the root directory
    rootWas,   \* what it held when New was called
    mkdirs,    \* number of os.MkdirAll calls made by New
    newRet,    \* what New returned: [u, err]
    heads,     \* r.MultipartForm.File[field] of the running Do
    idx,       \* 1-based position of `head` in the range loop of Do
    ext,       \* local variable ext of Do
    path,      \* local variable path of Do
    ret,       \* local variable ret of Do
    doRet,     \* what Do returned: [list, err]
    open,      \* file handles that are open (source streams, destinations)
    disk,      \* files under the root directory: name -> content
    now,       \* the wall clock, in seconds
    opened,    \* positions whose head.Open() was called
    created,   \* positions for which os.Create made a destination file
    gen,       \* position -> name generated for it
    short,     \* positions whose io.Copy stopped before the end of the content
    failedAt   \* position of the file a step of Do failed for, 0 if none

vars == <<pc, args, rootKind, rootWas, mkdirs, newRet, heads, idx, ext, path, ret,
          doRet, open, disk, now, opened, created, gen, short, failedAt>>

\* The nil error, the nil *Upload and the nil []string.
Nil == "nil"
NilUpload == [nil |-> TRUE]
NilSlice == [nil |-> TRUE, items |-> <<>>]
Slice(items) == [nil |-> FALSE, items |-> items]

\* ------------------------------------------------------------- bounds
MaxExts == 2      \* longest extension list given to New
MaxBatch == 2     \* most files attached to the form field
MaxClock == 1     \* last second the wall clock reaches

\* ------------------------------------------------------------- errors
ErrNotAllowExt == "ErrNotAllowExt"
ErrNotAllowSize == "ErrNotAllowSize"
ErrUnknownFileSize == "ErrUnknownFileSize"
ErrBadExtInDo == "errors.New@upload.go:134"
ErrBadSizeInDo == "errors.New@upload.go:142"
ErrUnknownInCheckSize == "errors.New@upload.go:108"
ErrNotDirInNew == "errors.New@upload.go:68"
ErrStat == "os.Stat:error"
ErrMkdir == "os.MkdirAll:error"
ErrOpen == "FileHeader.Open:error"
ErrFileStat == "stater.Stat:error"
ErrCreate == "os.Create:error"

\* ------------------------------------------------------------- strings
Separator == "/"

S1(a) == <<a>>
S2(a, b) == <<a, b>>
S3(a, b, c) == <<a, b, c>>

\* filepath.Ext: the suffix beginning at the final dot of the final path
\* element; empty if there is no dot.
RECURSIVE ExtFrom(_, _)
ExtFrom(p, i) ==
    IF i < 1 \/ p[i] = Separator THEN <<>>
    ELSE IF p[i] = "." THEN SubSeq(p, i, Len(p))
    ELSE ExtFrom(p, i - 1)

FilepathExt(p) == ExtFrom(p, Len(p))

Digit(n) == CASE n = 0 -> "0" [] n = 1 -> "1" [] n = 2 -> "2" [] n = 3 -> "3"
              [] n = 4 -> "4" [] n = 5 -> "5" [] n = 6 -> "6" [] n = 7 -> "7"
              [] n = 8 -> "8" [] n = 9 -> "9"

TwoDigits(n) == <<Digit(n \div 10), Digit(n % 10)>>

\* time.Time.Format for the layouts used here: "05" is the second of the
\* minute, "04" the minute of the hour, both zero-padded to two digits.
Format(t, role) ==
    CASE role = "05" -> TwoDigits(t % 60)
      [] role = "04" -> TwoDigits((t \div 60) % 60)

\* ------------------------------------------------------------- New
\* upload.go:35-42.  ext[0] is evaluated for every ext: an empty ext is an
\* index out of range.
ExtsPanic(exts) == \E i \in DOMAIN exts : Len(exts[i]) = 0

NormalizeExts(exts) ==
    [i \in DOMAIN exts |->
        IF exts[i][1] # "." THEN <<".">> \o exts[i] ELSE exts[i]]

\* upload.go:45-48.  dir[len(dir)-1] on an empty dir is an index out of range.
DirPanics(dir) == Len(dir) = 0

NormalizeDir(dir) ==
    IF dir[Len(dir)] # "/" /\ dir[Len(dir)] # Separator
    THEN dir \o <<Separator>> ELSE dir

\* The outcomes os.Stat(dir) can have, dir ending with a separator.  On an
\* entry that is not a directory the platform either fails the lookup
\* (ENOTDIR) or ignores the trailing separator and reports the entry.
StatOutcomes(kind) ==
    CASE kind = "dir" -> {[err |-> Nil, isDir |-> TRUE]}
      [] kind = "file" -> {[err |-> ErrStat, isDir |-> FALSE],
                           [err |-> Nil, isDir |-> FALSE]}
      [] kind = "missing" -> {[err |-> "os.ErrNotExist", isDir |-> FALSE]}
      [] kind = "staterr" -> {[err |-> ErrStat, isDir |-> FALSE]}

NewUpload(dir, maxSize, role, es) ==
    [dir |-> dir, maxSize |-> maxSize, role |-> role, exts |-> es]

\* New without the stat.IsDir() test of upload.go:67.
NewResolveSkipIsDir(a, kind, st, mkdirOk, st2) ==
    LET d == NormalizeDir(a.dir)
        u == NewUpload(d, a.maxSize, a.role, NormalizeExts(a.exts))
    IN  IF st.err # Nil
        THEN IF st.err # "os.ErrNotExist"
             THEN [u |-> NilUpload, err |-> st.err, mkdirs |-> 0, kind |-> kind]
             ELSE IF ~mkdirOk
             THEN [u |-> NilUpload, err |-> ErrMkdir, mkdirs |-> 1, kind |-> kind]
             ELSE IF st2.err # Nil
             THEN [u |-> NilUpload, err |-> st2.err, mkdirs |-> 1, kind |-> "dir"]
             ELSE [u |-> u, err |-> Nil, mkdirs |-> 1, kind |-> "dir"]
        ELSE [u |-> u, err |-> Nil, mkdirs |-> 0, kind |-> kind]

\* upload.go:50-77.  st is the outcome of the first os.Stat, mkdirOk that of
\* os.MkdirAll, st2 that of the second os.Stat.  The result is what New
\* returns, the number of MkdirAll calls and the state of the root after it.
NewResolve(a, kind, st, mkdirOk, st2) ==
    LET d == NormalizeDir(a.dir)
        u == NewUpload(d, a.maxSize, a.role, NormalizeExts(a.exts))
    IN  IF st.err # Nil
        THEN IF st.err # "os.ErrNotExist"
             THEN [u |-> NilUpload, err |-> st.err, mkdirs |-> 0, kind |-> kind]
             ELSE IF ~mkdirOk
             THEN [u |-> NilUpload, err |-> ErrMkdir, mkdirs |-> 1, kind |-> kind]
             ELSE IF st2.err # Nil
             THEN [u |-> NilUpload, err |-> st2.err, mkdirs |-> 1, kind |-> "dir"]
             ELSE IF ~st2.isDir
             THEN [u |-> NilUpload, err |-> ErrNotDirInNew, mkdirs |-> 1, kind |-> "dir"]
             ELSE [u |-> u, err |-> Nil, mkdirs |-> 1, kind |-> "dir"]
        ELSE IF ~st.isDir
             THEN [u |-> NilUpload, err |-> ErrNotDirInNew, mkdirs |-> 0, kind |-> kind]
             ELSE [u |-> u, err |-> Nil, mkdirs |-> 0, kind |-> kind]

\* ------------------------------------------------------------- validators
Lower(c) == IF c = "J" THEN "j" ELSE c

Fold(s) == [i \in DOMAIN s |-> Lower(s[i])]

\* checkExt with strings.EqualFold in place of ==.
RECURSIVE ExtLoopFold(_, _, _)
ExtLoopFold(es, e, i) ==
    IF i > Len(es) THEN FALSE
    ELSE IF Fold(es[i]) = Fold(e) THEN TRUE
    ELSE ExtLoopFold(es, e, i + 1)

checkExtFold(u, e) == IF Len(e) = 0 THEN FALSE ELSE ExtLoopFold(u.exts, e, 1)

\* checkExt without the loop over u.exts.
checkExtNoList(u, e) == Len(e) # 0

\* upload.go:86-91, the range loop over u.exts
RECURSIVE ExtLoop(_, _, _)
ExtLoop(es, e, i) ==
    IF i > Len(es) THEN FALSE
    ELSE IF es[i] = e THEN TRUE
    ELSE ExtLoop(es, e, i + 1)

\* upload.go:80-92
checkExt(u, e) == IF Len(e) = 0 THEN FALSE ELSE ExtLoop(u.exts, e, 1)

\* upload.go:95-112.  A handle is a stater (Stat() may fail), a sizer, or
\* neither; the size either reports is the length of the content.
checkSize(u, file) ==
    CASE file.kind = "stater" ->
            IF file.statErr THEN [ok |-> FALSE, err |-> ErrFileStat]
            ELSE [ok |-> Len(file.content) <= u.maxSize, err |-> Nil]
      [] file.kind = "sizer" ->
            [ok |-> Len(file.content) <= u.maxSize, err |-> Nil]
      [] OTHER -> [ok |-> FALSE, err |-> ErrUnknownInCheckSize]

\* ------------------------------------------------------------- inputs
File(name, kind, content, openErr, statErr) ==
    [Filename |-> name, kind |-> kind, content |-> content,
     openErr |-> openErr, statErr |-> statErr]

Files ==
    { File(S3("a", ".", "j"), "stater", <<1>>, FALSE, FALSE),
      File(S3("b", ".", "j"), "sizer", <<2, 2>>, FALSE, FALSE),
      File(S3(".", "j", "/") \o S1("a"), "sizer", <<1>>, FALSE, FALSE),
      File(S3("a", ".", "j"), "sizer", <<>>, FALSE, FALSE),
      File(S3("a", ".", "j"), "none", <<1>>, FALSE, FALSE),
      File(S3("a", ".", "j"), "stater", <<1>>, FALSE, TRUE),
      File(S3("a", ".", "j"), "stater", <<1>>, TRUE, FALSE) }

SeqsUpTo(S, n) == UNION {[1..k -> S] : k \in 0..n}

Batches == SeqsUpTo(Files, MaxBatch)

SuppliedExts == {S1("j"), S2(".", "J"), <<>>}

ExtLists == SeqsUpTo(SuppliedExts, MaxExts)

Dirs == {S1("u"), S2("u", "/"), <<>>}

MaxSizes == {1, 2}

Roles == {"05", "04"}

RootKinds == {"dir", "file", "missing", "staterr"}

\* ------------------------------------------------------------- state
Init ==
    /\ pc = "new"
    /\ args = [nil |-> TRUE]
    /\ rootKind \in RootKinds
    /\ rootWas = rootKind
    /\ mkdirs = 0
    /\ newRet = [u |-> NilUpload, err |-> Nil]
    /\ heads = <<>>
    /\ idx = 0
    /\ ext = <<>>
    /\ path = <<>>
    /\ ret = <<>>
    /\ doRet = [list |-> NilSlice, err |-> Nil]
    /\ open = {}
    /\ disk = <<>>
    /\ now = 0
    /\ opened = {}
    /\ created = {}
    /\ gen = <<>>
    /\ short = {}
    /\ failedAt = 0

doVars == <<heads, idx, ext, path, ret, doRet, open, disk, now, opened,
            created, gen, short, failedAt>>

\* upload.go:33-77
New(dir, maxSize, role, exts) ==
    /\ pc = "new"
    /\ args' = [dir |-> dir, maxSize |-> maxSize, role |-> role, exts |-> exts]
    /\ IF ExtsPanic(exts) \/ DirPanics(dir)
       THEN /\ pc' = "panic"
            /\ UNCHANGED <<rootKind, rootWas, mkdirs, newRet>>
       ELSE \E st \in StatOutcomes(rootKind), mkdirOk \in BOOLEAN,
               st2 \in {[err |-> Nil, isDir |-> TRUE],
                        [err |-> ErrStat, isDir |-> FALSE]} :
               LET r == NewResolve(args', rootKind, st, mkdirOk, st2)
               IN  /\ newRet' = [u |-> r.u, err |-> r.err]
                   /\ mkdirs' = r.mkdirs
                   /\ rootKind' = r.kind
                   /\ rootWas' = rootKind
                   /\ pc' = IF r.u = NilUpload THEN "newFailed" ELSE "ready"
    /\ UNCHANGED doVars

\* ------------------------------------------------------------- Do
newVars == <<args, rootKind, rootWas, mkdirs, newRet>>

u == newRet.u

head == heads[idx]

Src(i) == <<"src", i>>
Dst(i) == <<"dst", i>>

\* make([]string, n): n zero-valued strings
MakeStrings(n) == [i \in 1..n |-> <<>>]

\* `return ret, err` in place of `return nil, err`.
FailKeepRet(e) ==
    /\ pc' = "done"
    /\ doRet' = [list |-> Slice(ret), err |-> e]

\* The early returns of Do: `return nil, err` (upload.go:129, 134, 139, 142,
\* 149).
Fail(e) ==
    /\ pc' = "done"
    /\ doRet' = [list |-> NilSlice, err |-> e]

\* upload.go:122-124
DoBegin(hs) ==
    /\ pc = "ready"
    /\ heads' = hs
    /\ ret' = MakeStrings(Len(hs))
    /\ idx' = 1
    /\ pc' = "open"
    /\ UNCHANGED <<newVars, ext, path, doRet, open, disk, now, opened,
                   created, gen, short, failedAt>>

\* upload.go:127-130
DoOpen ==
    /\ pc = "open"
    /\ idx <= Len(heads)
    /\ opened' = opened \cup {idx}
    /\ IF head.openErr
       THEN /\ Fail(ErrOpen)
            /\ failedAt' = idx
            /\ UNCHANGED open
       ELSE /\ open' = open \cup {Src(idx)}
            /\ pc' = "ext"
            /\ UNCHANGED <<doRet, failedAt>>
    /\ UNCHANGED <<newVars, heads, idx, ext, path, ret, disk, now, created,
                   gen, short>>

\* upload.go:132-135
DoCheckExt ==
    /\ pc = "ext"
    /\ ext' = FilepathExt(head.Filename)
    /\ IF ~checkExt(u, ext')
       THEN /\ Fail(ErrBadExtInDo)
            /\ failedAt' = idx
       ELSE /\ pc' = "size"
            /\ UNCHANGED <<doRet, failedAt>>
    /\ UNCHANGED <<newVars, heads, idx, path, ret, open, disk, now, opened,
                   created, gen, short>>

\* upload.go:137-143
DoCheckSize ==
    /\ pc = "size"
    /\ LET r == checkSize(u, head)
       IN  IF r.err # Nil
           THEN /\ Fail(r.err)
                /\ failedAt' = idx
           ELSE IF ~r.ok
           THEN /\ Fail(ErrBadSizeInDo)
                /\ failedAt' = idx
           ELSE /\ pc' = "create"
                /\ UNCHANGED <<doRet, failedAt>>
    /\ UNCHANGED <<newVars, heads, idx, ext, path, ret, open, disk, now,
                   opened, created, gen, short>>

\* upload.go:145-150.  t is the wall-clock time read by time.Now(); createOk
\* is whether os.Create succeeds.  os.Create truncates an existing file.
DoCreate ==
    /\ pc = "create"
    /\ \E t \in now..MaxClock, createOk \in BOOLEAN :
        /\ now' = t
        /\ path' = Format(t, u.role) \o ext
        /\ ret' = Append(ret, path')
        /\ gen' = (idx :> path') @@ gen
        /\ IF ~createOk
           THEN /\ Fail(ErrCreate)
                /\ failedAt' = idx
                /\ UNCHANGED <<open, disk, created>>
           ELSE /\ disk' = ((u.dir \o path') :> <<>>) @@ disk
                /\ open' = open \cup {Dst(idx)}
                /\ created' = created \cup {idx}
                /\ pc' = "copy"
                /\ UNCHANGED <<doRet, failedAt>>
    /\ UNCHANGED <<newVars, heads, idx, ext, opened, short>>

\* upload.go:152-156.  io.Copy writes n bytes of the content, all of them
\* unless reading or writing fails; its result is discarded.  Then both
\* handles are closed and the loop moves to the next head.
DoCopy ==
    /\ pc = "copy"
    /\ \E n \in 0..Len(head.content) :
        /\ disk' = ((u.dir \o path) :> SubSeq(head.content, 1, n)) @@ disk
        /\ short' = IF n < Len(head.content) THEN short \cup {idx} ELSE short
    /\ open' = open \ {Dst(idx), Src(idx)}
    /\ idx' = idx + 1
    /\ pc' = "open"
    /\ UNCHANGED <<newVars, heads, ext, path, ret, doRet, now, opened,
                   created, gen, failedAt>>

\* upload.go:158
DoReturn ==
    /\ pc = "open"
    /\ idx > Len(heads)
    /\ doRet' = [list |-> Slice(ret), err |-> Nil]
    /\ pc' = "done"
    /\ UNCHANGED <<newVars, heads, idx, ext, path, ret, open, disk, now,
                   opened, created, gen, short, failedAt>>

Next ==
    \/ \E dir \in Dirs, maxSize \in MaxSizes, role \in Roles,
          exts \in ExtLists : New(dir, maxSize, role, exts)
    \/ \E hs \in Batches : DoBegin(hs)
    \/ DoOpen
    \/ DoCheckExt
    \/ DoCheckSize
    \/ DoCreate
    \/ DoCopy
    \/ DoReturn

Spec == Init /\ [][Next]_vars

\* ------------------------------------------------------------- properties
InDo == pc \in {"open", "ext", "size", "create", "copy", "done"}

Returned == pc \in {"ready", "newFailed"} \/ InDo

\* ext is one of the configured extensions, compared byte for byte.
Allowed(e) == e # <<>> /\ \E i \in DOMAIN u.exts : u.exts[i] = e

ExtOf(i) == FilepathExt(heads[i].Filename)

SizeOf(i) == Len(heads[i].content)

HasSize(i) ==
    \/ heads[i].kind = "sizer"
    \/ heads[i].kind = "stater" /\ ~heads[i].statErr

\* C1: when Do succeeds on a batch of N files it returns exactly N names, the
\* i-th being the name generated for the i-th file, with no empty entry.
C1_ReturnsOneNamePerFile ==
    (/\ pc = "done"
     /\ doRet.err = Nil
     /\ short = {}
     /\ \A i \in 1..Len(heads) : 0 < SizeOf(i)) =>
        /\ ~doRet.list.nil
        /\ Len(doRet.list.items) = Len(heads)
        /\ \A i \in 1..Len(heads) :
              doRet.list.items[i] = gen[i] /\ doRet.list.items[i] # <<>>

\* C2: a handle that reports size s passes checkSize iff 0 < s <= maxSize.
C2_SizeAcceptedIffPositiveAndWithinMax ==
    /\ (pc \in {"create", "copy"}) =>
          (0 < SizeOf(idx) /\ SizeOf(idx) <= u.maxSize)
    /\ (pc = "done" /\ failedAt # 0 /\ doRet.err = ErrBadSizeInDo) =>
          ~(0 < SizeOf(failedAt) /\ SizeOf(failedAt) <= u.maxSize)

\* A position passed every step up to the creation of its destination.
PassedValidation(i) ==
    /\ ~heads[i].openErr
    /\ Allowed(ExtOf(i))
    /\ HasSize(i)
    /\ checkSize(u, heads[i]).ok

\* Once a step fails for file k, Do has returned an error and no list,
\* exactly the files 1..k were opened, none after k was created, every file
\* before k passed its steps and its destination is on disk, and the failing
\* step leaves the disk as it was.
C3_AbortState ==
    failedAt # 0 =>
        /\ pc = "done"
        /\ doRet.list = NilSlice
        /\ doRet.err # Nil
        /\ idx = failedAt
        /\ opened = 1..failedAt
        /\ created \subseteq 1..(failedAt - 1)
        /\ \A j \in 1..(failedAt - 1) :
              /\ PassedValidation(j)
              /\ j \in created
              /\ (u.dir \o gen[j]) \in DOMAIN disk

\* C3: abort on first failure: C3_AbortState holds in every state, and the
\* step that fails (the only one that sets failedAt) leaves every file on
\* disk unchanged: nothing written earlier is rolled back.
C3_AbortOnFirstFailure ==
    /\ []C3_AbortState
    /\ [][failedAt' # 0 => disk' = disk]_vars

C3_Witness ==
    /\ pc = "done"
    /\ failedAt = 2
    /\ created = {1}
    /\ doRet.err = ErrCreate
    /\ disk[u.dir \o gen[1]] = heads[1].content

\* C4: no file handle is open when Do has returned.
C4_NoOpenHandleAtReturn == pc = "done" => open = {}

\* C5: when Do succeeds and every copy ran to the end, the file on disk under
\* the name generated for file i holds the content uploaded as file i.
C5_RoundTrip ==
    (/\ pc = "done"
     /\ doRet.err = Nil
     /\ short = {}
     /\ \A i \in 1..Len(heads) : 0 < SizeOf(i)) =>
        \A i \in 1..Len(heads) :
            /\ (u.dir \o gen[i]) \in DOMAIN disk
            /\ disk[u.dir \o gen[i]] = heads[i].content

\* C6: a destination is created, and a name generated, only for an entry
\* whose extension is allowed and for which checkSize returned (true, nil);
\* the entry a step failed for on validation has no destination.
C6_ValidationPrecedesPersistence ==
    /\ \A i \in created \cup DOMAIN gen :
          /\ Allowed(ExtOf(i))
          /\ checkSize(u, heads[i]) = [ok |-> TRUE, err |-> Nil]
    /\ \A i \in 1..Len(heads) : Dst(i) \in open => i \in created
    /\ (pc \in {"create", "copy"}) =>
          /\ Allowed(ExtOf(idx))
          /\ checkSize(u, heads[idx]) = [ok |-> TRUE, err |-> Nil]
    /\ failedAt # 0 => failedAt \notin created

C6_Witness ==
    /\ pc = "done"
    /\ failedAt = 2
    /\ created = {1}
    /\ doRet.err = ErrBadSizeInDo
    /\ DOMAIN disk = {u.dir \o gen[1]}

\* C7: the error Do returns is the declared constant for the first cause:
\* ErrNotAllowExt, ErrNotAllowSize or ErrUnknownFileSize.
C7_ErrorsAreDeclaredConstants ==
    (pc = "done" /\ failedAt # 0 /\ ~heads[failedAt].openErr) =>
        /\ ~Allowed(ExtOf(failedAt)) => doRet.err = ErrNotAllowExt
        /\ (Allowed(ExtOf(failedAt)) /\ heads[failedAt].kind = "none") =>
              doRet.err = ErrUnknownFileSize
        /\ (/\ Allowed(ExtOf(failedAt))
            /\ HasSize(failedAt)
            /\ ~(0 < SizeOf(failedAt) /\ SizeOf(failedAt) <= u.maxSize)) =>
              doRet.err = ErrNotAllowSize

ExtProbes ==
    {<<>>, S1("."), S1("j"), S1("J"), S2(".", "j"), S2(".", "J"),
     S3(".", "j", "j")}

\* C8: checkExt(ext) is true iff ext is non-empty and equal, byte for byte,
\* to a configured extension; Do goes past the extension check only with
\* such an ext and fails there only without one.
C8_CheckExtExact ==
    /\ (pc = "ready" \/ InDo) =>
          \A e \in ExtProbes : checkExt(u, e) = Allowed(e)
    /\ (pc \in {"size", "create", "copy"}) => Allowed(ext)
    /\ (pc = "done" /\ doRet.err = ErrBadExtInDo) => ~Allowed(ext)

C8_Witness ==
    /\ pc = "done"
    /\ doRet.err = ErrBadExtInDo
    /\ ext = S2(".", "j")
    /\ u.exts = <<S2(".", "J")>>

\* C9: when New returns, it returns an Upload and no error, and the root is
\* a directory, or no Upload and an error; a root that is a regular file
\* gives an error; a missing root is created with one MkdirAll call, whose
\* failure is the error returned, and no other root is created.
C9_NewAllOrNothing ==
    Returned =>
        /\ \/ newRet.u # NilUpload /\ newRet.err = Nil /\ rootKind = "dir"
           \/ newRet.u = NilUpload /\ newRet.err # Nil
        /\ rootWas = "file" => (newRet.u = NilUpload /\ newRet.err # Nil)
        /\ mkdirs = (IF rootWas = "missing" THEN 1 ELSE 0)
        /\ (rootWas = "missing" /\ rootKind = "missing") =>
              newRet.err = ErrMkdir

C9_Witness ==
    /\ pc = "ready"
    /\ rootWas = "missing"
    /\ rootKind = "dir"
    /\ mkdirs = 1
    /\ newRet.err = Nil

\* C10: New completes for every extension string, and the configured list
\* has the length and order of the supplied one, each entry dotted: unchanged
\* if it was dotted, prefixed with a dot if not.
C10_NormalizeExtsTotal ==
    (pc # "new" /\ args.dir # <<>>) =>
        /\ pc # "panic"
        /\ newRet.u # NilUpload =>
              /\ Len(u.exts) = Len(args.exts)
              /\ \A i \in DOMAIN args.exts :
                    /\ u.exts[i][1] = "."
                    /\ u.exts[i] = IF args.exts[i][1] = "." THEN args.exts[i]
                                   ELSE <<".">> \o args.exts[i]
====
